---- MODULE Spec2Model ----
(***************************************************************************)
(* Deterministic arterial input function selection (AIF_deterministic.py). *)
(*                                                                         *)
(* The image volume is a row of Sites; a site stands for a block of voxels *)
(* in scan order.  What the numerical libraries compute from the image     *)
(* data (percentile mask, opening, component labelling, region areas,      *)
(* least-squares costs, erosion/dilation, flood fill, k-means) is an input *)
(* drawn from every outcome the library's contract allows; everything the  *)
(* Python code itself decides is computed as the code computes it.         *)
(***************************************************************************)
EXTENDS Integers, Sequences, FiniteSets, TLC

\* ---------------------------------------------------------------- bounds
NSites == 3          \* sites of the volume, in scan order
MaxCost == 2         \* fit costs are drawn from 0..MaxCost
SamplePeak == 6      \* the interior peak index the inputs sample
NSteps == 2          \* timesteps T of a curve handed to the clusterer
MaxConc == 1         \* concentration values are drawn from 0..MaxConc
MaxK == 3            \* n_clusters handed to kmeans_cluster (clusterer alone)
MaxT == 3            \* timesteps T of a volume handed to the two helpers alone

Sites == 1..NSites
CostVals == 0..MaxCost

\* ------------------------------------------------------ program constants
None == -1                 \* "return None, None"
NaN == -1                  \* math.nan in the cost column
ValueError == -2           \* estimate_parkers_model raised ValueError
area_threshold == 1000
FirstWindow == 20
RetryWindow == 30
NoMap == << >>             \* the second None of "return None, None"

VARIABLES
    pc,                 \* position in find_deterministic_aif / in a helper call
    err,                \* the exception that left the function, or "none"
    binary_opening,     \* mask after steps 1-2 (set of sites)
    timesteps,          \* window of the latest find_most_peak_values call
    windows,            \* windows find_most_peak_values was called with, in order
    peak_values,        \* argmax over the window, per site of the mask
    dce_wide,           \* sites whose curve is non-zero away from its peak
    max_timestep,
    retain_voxels,
    label_im,           \* site -> label, 0 is background
    regions,            \* regionprops(label_im), one record per label
    masks, bbox, list_of_index,
    df_cost,            \* df['cost'], row -> cost or NaN
    fits,               \* every <<site set, outcome>> of estimate_parkers_model
    solution,           \* outcome of the latest estimate_parkers_model call
    best_fit,
    mask,
    multi_dilated,
    cost_after_dilation,
    m,
    cost_after_region_growing,
    timecourses,        \* curves of the sites of mask, in scan order
    cluster_results,
    number_of_clusters,
    hist, idx, tcc, fullline,
    Cb,
    helper_in, helper_out   \* arguments / result of a helper called on its own

vars == << pc, err, binary_opening, timesteps, windows, peak_values, dce_wide,
           max_timestep, retain_voxels, label_im, regions, masks, bbox,
           list_of_index, df_cost, fits, solution, best_fit, mask,
           multi_dilated, cost_after_dilation, m, cost_after_region_growing,
           timecourses, cluster_results, number_of_clusters, hist, idx, tcc,
           fullline, Cb, helper_in, helper_out >>

alignVars == << timesteps, windows, peak_values, dce_wide, max_timestep, retain_voxels >>
regionVars == << label_im, regions, masks, bbox, list_of_index >>
fitVars == << df_cost, fits, solution, best_fit, mask >>
refineVars == << multi_dilated, cost_after_dilation, m, cost_after_region_growing >>
clusterVars == << timecourses, cluster_results, number_of_clusters, hist, idx,
                  tcc, fullline, Cb >>
helperVars == << helper_in, helper_out >>

\* ------------------------------------------------------------ numpy helpers
Min(S) == CHOOSE x \in S : \A y \in S : x <= y
Max(S) == CHOOSE x \in S : \A y \in S : x >= y

RECURSIVE SumSeq(_)
SumSeq(q) == IF q = << >> THEN 0 ELSE Head(q) + SumSeq(Tail(q))

\* np.histogram(f, bins, range=(lo2/2, hi2/2)): bin of value v.  Edges are
\* equally spaced, every bin is half open except the last, which is closed.
BinOf(v, bins, lo2, hi2) ==
    IF 2 * v = hi2 THEN bins - 1 ELSE ((2 * v - lo2) * bins) \div (hi2 - lo2)

\* np.histogram(f, bins=bins) with the default range: (min, max) of the data,
\* (min - 0.5, max + 0.5) when they coincide, (0, 1) for no data.
\* Returns [0..bins-1 -> count]; f is a function (site or position -> value).
Histogram(f, bins) ==
    LET D == DOMAIN f
        V == { f[d] : d \in D }
        lo2 == IF D = {} THEN 0 ELSE IF Min(V) = Max(V) THEN 2 * Min(V) - 1 ELSE 2 * Min(V)
        hi2 == IF D = {} THEN 2 ELSE IF Min(V) = Max(V) THEN 2 * Max(V) + 1 ELSE 2 * Max(V)
    IN [ b \in 0..(bins - 1) |-> Cardinality({ d \in D : BinOf(f[d], bins, lo2, hi2) = b }) ]

\* np.histogram(f, range=(0, bins), bins=bins)
HistogramRange(f, bins) ==
    [ b \in 0..(bins - 1) |-> Cardinality({ d \in DOMAIN f : BinOf(f[d], bins, 0, 2 * bins) = b }) ]

\* np.argmax over a function on 0..n-1: the first index holding the maximum.
ArgMax(h) ==
    CHOOSE i \in DOMAIN h : /\ \A j \in DOMAIN h : h[j] <= h[i]
                            /\ \A j \in DOMAIN h : j < i => h[j] < h[i]

\* ---------------------------------------------------- find_most_peak_values
\* first_part: sites of the mask whose peak index passes 0 < peak < timesteps.
FirstPart(pk, n) == { s \in DOMAIN pk : 0 < pk[s] /\ pk[s] < n }

\* dce[t, s] for a site whose peak index is pk[s]: its maximum at its own peak,
\* a smaller value elsewhere, zero elsewhere unless the curve is wide.
DceAt(t, s, pk, wide) ==
    IF pk[s] = t /\ t > 0 THEN 2 ELSE IF s \in wide THEN 1 ELSE 0

MostPeakTimestep(pk, n) ==
    LET first_part == FirstPart(pk, n)
        peak_value == [ s \in first_part |-> pk[s] ]
    IN ArgMax(Histogram(peak_value, n))

find_most_peak_values(pk, wide, n) ==
    LET t == MostPeakTimestep(pk, n)
    IN IF t = 0 \/ t >= n - 1
       THEN << None, NoMap >>
       ELSE << t, [ s \in Sites |-> IF s \in DOMAIN pk THEN DceAt(t, s, pk, wide) ELSE 0 ] >>

\* peak indices the inputs sample for a window of n timesteps
PeakIdx(n) == { 0, SamplePeak, n - 1 }

\* peak indices of the sites of S the inputs sample: every site at the same
\* index, or the first site at the interior index and the rest at the last
PeakProfiles(S, n) ==
    { [ s \in S |-> p ] : p \in PeakIdx(n) }
    \cup { [ s \in S |-> IF s = Min(S) THEN SamplePeak ELSE n - 1 ] }

\* argmax over a longer window is the old argmax or a later index: the
\* inputs sample "no site moves" and "every site moves to the last index"
RetryProfiles(pk, n) == { pk, [ s \in DOMAIN pk |-> n - 1 ] }


\* --------------------------------------------- relative_concentration_map
\* A volume is [1..T -> [Sites -> value]]; im[i + 1] is Python's im[i].
Volumes(T) == [ 1..T -> [ Sites -> 0..MaxConc ] ]

\* len(im[:b]): Python's slice clips b to the length and counts a negative b
\* from the end
PySliceLen(b, T) ==
    IF b >= 0 THEN (IF b < T THEN b ELSE T) ELSE (IF T + b > 0 THEN T + b ELSE 0)

\* A float is kept as the quotient num/den, den > 0; den = 0 is NaN (num = 0)
\* or +inf (num = 1).
Quot(num, den) == [ num |-> num, den |-> den ]
Zero == Quot(0, 1)
NaNQuot == Quot(0, 0)
InfQuot == Quot(1, 0)

\* relim[relim < 0] = 0: a comparison with NaN is false, NaN stays
ClampNegative(q) == IF q.den > 0 /\ q.num < 0 THEN Zero ELSE q

\* im0 = np.mean(im[:baseline], axis=0) at site v, as (sum, count)
BaselineSum(im, cnt, v) == SumSeq([ i \in 1..cnt |-> im[i][v] ])

\* one value of relim before the clamp
Concentration(x, sum, cnt, k, option) ==
    IF option = "ABS"
    THEN (IF cnt = 0 THEN NaNQuot ELSE Quot(k * (cnt * x - sum), cnt))
    ELSE IF option = "REL"
    THEN (IF cnt = 0 THEN NaNQuot
          ELSE IF sum = 0 THEN (IF x = 0 THEN NaNQuot ELSE InfQuot)
          ELSE Quot(k * (cnt * x - sum), sum))
    ELSE Zero

\* relative_concentration_map(im, baseline, k, option); option is the value of
\* option.upper().strip().  No statement of the function checks baseline.
relative_concentration_map(im, baseline, k, option) ==
    LET T == Len(im)
        cnt == PySliceLen(baseline, T)
    IN [ raised |-> "no",
         value |-> [ i \in 1..T |-> [ v \in Sites |->
                       ClampNegative(Concentration(im[i][v], BaselineSum(im, cnt, v), cnt, k, option)) ] ] ]

\* ------------------------------------------------ select_brightest_voxels
\* the two assert statements
BrightestArgsOk(n, T, p) == (n > 0 /\ n < T) /\ (0 < p /\ p < 100)

\* the values of f in ascending order
RECURSIVE SortedVals(_, _)
SortedVals(f, D) ==
    IF D = {} THEN << >>
    ELSE LET d == CHOOSE e \in D : \A g \in D : f[e] <= f[g]
         IN << f[d] >> \o SortedVals(f, D \ { d })

\* 100 * np.percentile(x, q), linear interpolation between the two order
\* statistics around the position q / 100 * (N - 1)
Percentile100(f, q) ==
    LET x == SortedVals(f, DOMAIN f)
        h == q * (Len(x) - 1)
        lo == h \div 100
        r == h % 100
    IN IF r = 0 THEN 100 * x[lo + 1]
       ELSE 100 * x[lo + 1] + r * (x[lo + 2] - x[lo + 1])

\* select_brightest_voxels(dce, timesteps, percentile); the mean over the
\* first timesteps is kept as the sum (every site is divided by the same n)
select_brightest_voxels(dce, n, percentile) ==
    IF ~BrightestArgsOk(n, Len(dce), percentile)
    THEN [ raised |-> "AssertionError" ]
    ELSE LET dce_sum == [ v \in Sites |-> SumSeq([ i \in 1..n |-> dce[i][v] ]) ]
             dce_pct == Percentile100(dce_sum, 100 - percentile)
         IN [ raised |-> "no", value |-> { v \in Sites : 100 * dce_sum[v] > dce_pct } ]

\* ------------------------------------------------------ region extraction
\* skimage.measure.label: background 0, components numbered 1..L in the order
\* their first site is met in scan order.  The geometry that decides which
\* sites touch is not modelled, so every grouping of the mask is an outcome.
Labelings(S) ==
    { lab \in [Sites -> 0..NSites] :
        /\ \A s \in Sites : (lab[s] = 0) <=> (s \notin S)
        /\ \A s \in S : lab[s] <= 1 + Max({ lab[r] : r \in { q \in S : q < s } } \cup {0}) }

NumLabels(lab) == Max({ lab[s] : s \in Sites } \cup {0})
LabelSites(lab, l) == { s \in Sites : lab[s] = l }

\* region areas regionprops can report: below, at and above the threshold
AreaVals == { area_threshold - 1, area_threshold, area_threshold + 1 }

\* skimage.measure.regionprops(label_im): one entry per label 1..L (label 0 is
\* not an entry); entry l carries the area, bounding box and convex image.
RegionProps(lab, area) ==
    [ l \in 1..NumLabels(lab) |->
        [ label |-> l,
          area |-> area[l],
          bbox |-> << Min(LabelSites(lab, l)), Max(LabelSites(lab, l)) + 1 >>,
          convex_image |-> Min(LabelSites(lab, l))..Max(LabelSites(lab, l)) ] ]

NoObjects == [ masks |-> << >>, bbox |-> << >>, list_of_index |-> << >> ]

\* the loop of find_promising_objects; regs[num + 1] is Python's regions[num]
RECURSIVE PromisingFrom(_, _, _, _)
PromisingFrom(regs, thr, num, acc) ==
    IF num >= Len(regs) THEN acc
    ELSE LET x == regs[num + 1]
         IN PromisingFrom(regs, thr, num + 1,
                IF num # 0 /\ x.area > thr
                THEN [ masks |-> Append(acc.masks, x.convex_image),
                       bbox |-> Append(acc.bbox, x.bbox),
                       list_of_index |-> Append(acc.list_of_index, num) ]
                ELSE acc)

find_promising_objects(regs, thr) == PromisingFrom(regs, thr, 0, NoObjects)

Range(seq) == { seq[i] : i \in DOMAIN seq }

\* ------------------------------------------------------------- cost column
\* df['cost'].min(): NaN rows are skipped
MinCost(col) == Min({ col[r] : r \in { q \in DOMAIN col : col[q] # NaN } })

\* idxmin taking the last row holding the minimum instead of the first
IdxMin_Last(col) ==
    CHOOSE r \in DOMAIN col : /\ col[r] # NaN
                              /\ col[r] = MinCost(col)
                              /\ \A q \in DOMAIN col : (q > r /\ col[q] # NaN) => col[q] > col[r]

\* df['cost'].idxmin(): the first row holding the minimum, NaN rows skipped
IdxMin(col) ==
    CHOOSE r \in DOMAIN col : /\ col[r] # NaN
                              /\ col[r] = MinCost(col)
                              /\ \A q \in DOMAIN col : (q < r /\ col[q] # NaN) => col[q] > col[r]

HasCost(col) == \E r \in DOMAIN col : col[r] # NaN

\* estimate_parkers_model on the curve averaged over the sites S: a cost, or
\* ValueError (always for an empty S: the averaged curve is 0/0).  The fit is
\* a function of S, so a set fitted before gives the same outcome again.
FitOutcomes(S) ==
    IF \E f \in fits : f[1] = S THEN { f[2] : f \in { g \in fits : g[1] = S } }
    ELSE IF S = {} THEN { ValueError }
    ELSE CostVals \cup { ValueError }

\* an acceptance test that also takes a refit of equal cost
Accepts_NotStrict(cost, best) == cost <= best

\* the acceptance test of both refinement steps: "solution.cost < best"
Accepts(cost, best) == cost < best

\* a decision that records the lower cost and forgets to replace the mask
AcceptedMask_Stale(cost, best, refined, current) == current

\* the mask after a refinement decision
AcceptedMask(cost, best, refined, current) ==
    IF cost # ValueError /\ Accepts(cost, best) THEN refined ELSE current

\* the running best cost after a refinement decision
AcceptedCost(cost, best) ==
    IF cost # ValueError /\ Accepts(cost, best) THEN cost ELSE best


\* ------------------------------------------------------ temporal clustering
Curves == [ 1..NSteps -> 0..MaxConc ]

\* curves of the sites of S the inputs sample: a constant curve at the first
\* site, the all-zero curve at the others
CurveProfiles(S) ==
    { [ s \in S |-> [ t \in 1..NSteps |-> IF s = Min(S) THEN c ELSE 0 ] ] : c \in 0..MaxConc }

\* the sites of S in scan order
RECURSIVE ScanOrder(_)
ScanOrder(S) == IF S = {} THEN << >> ELSE << Min(S) >> \o ScanOrder(S \ { Min(S) })

\* KMeans(n_clusters).fit_predict: one id in 0..n_clusters-1 per curve;
\* fewer curves than clusters is refused with ValueError.
KMeansRefuses(tcs, n_clusters) == Len(tcs) < n_clusters
kmeans_cluster(tcs, n_clusters) == [ 1..Len(tcs) -> 0..(n_clusters - 1) ]

\* the loop that stores every curve in the array of its cluster
\* (acc.tc[x] is the list of rows written so far, acc.idx[x] their number)
RECURSIVE StoreFrom(_, _, _, _)
StoreFrom(tcs, cr, i, acc) ==
    IF i > Len(tcs) THEN acc
    ELSE LET cluster == cr[i]
         IN StoreFrom(tcs, cr, i + 1,
                [ tc |-> [ acc.tc EXCEPT ![cluster] = Append(@, tcs[i]) ],
                  idx |-> [ acc.idx EXCEPT ![cluster] = @ + 1 ] ])

StoreCurves(tcs, cr, K) ==
    StoreFrom(tcs, cr, 1, [ tc |-> [ x \in 0..(K - 1) |-> << >> ],
                            idx |-> [ x \in 0..(K - 1) |-> 0 ] ])

\* np.sum(tc[x], axis=0) / tc[x].shape[0]: the column sums over the row count;
\* the quotient is kept as the pair (sums, n), n = 0 meaning a curve of NaN
AverageCurve(rows) ==
    [ sum |-> [ t \in 1..NSteps |-> SumSeq([ i \in 1..Len(rows) |-> rows[i][t] ]) ],
      n |-> Len(rows) ]

\* fullline[x] = np.sum(tcc[x]) / len(tcc[x]), kept as (num, den); den = 0 is NaN
FullLine(avg) == [ num |-> SumSeq(avg.sum), den |-> avg.n * NSteps ]

IsNaN(q) == q.den = 0
Less(p, q) == p.num * q.den < q.num * p.den

\* np.argmin(fullline): the first NaN if there is one, else the first minimum
ArgMinLine(fl) ==
    IF \E x \in DOMAIN fl : IsNaN(fl[x])
    THEN Min({ x \in DOMAIN fl : IsNaN(fl[x]) })
    ELSE CHOOSE x \in DOMAIN fl : /\ \A y \in DOMAIN fl : ~Less(fl[y], fl[x])
                                  /\ \A y \in DOMAIN fl : y < x => Less(fl[x], fl[y])

\* --------------------------------------------------------- initial states
Unaligned ==
    /\ timesteps = 0 /\ windows = << >> /\ peak_values = << >> /\ dce_wide = {}
    /\ max_timestep = None /\ retain_voxels = NoMap

Unfitted ==
    /\ err = "none"
    /\ label_im = [ s \in Sites |-> 0 ] /\ regions = << >>
    /\ masks = << >> /\ bbox = << >> /\ list_of_index = << >>
    /\ df_cost = << >> /\ fits = {} /\ solution = NaN /\ best_fit = NaN
    /\ mask = {} /\ multi_dilated = {} /\ cost_after_dilation = NaN
    /\ m = {} /\ cost_after_region_growing = NaN
    /\ timecourses = << >> /\ cluster_results = << >> /\ number_of_clusters = 0
    /\ hist = << >> /\ idx = << >> /\ tcc = << >> /\ fullline = << >> /\ Cb = << >>
    /\ helper_in = [ fn |-> "none" ] /\ helper_out = [ raised |-> "none" ]

Unset == binary_opening = {} /\ Unaligned /\ Unfitted

Init == pc = "start" /\ Unset

Raise(e) == pc' = "error" /\ err' = e

\* ------------------------------------------------- find_deterministic_aif
\* lines 198-222: relative concentration, 2 % brightest voxels of the first
\* 20 timesteps, binary opening.  A series of 20 timesteps or fewer fails the
\* assert of select_brightest_voxels.
Preprocess ==
    /\ pc = "start"
    /\ \E T \in { FirstWindow, FirstWindow + 1 }, opened \in SUBSET Sites :
         IF BrightestArgsOk(FirstWindow, T, 2)
         THEN /\ binary_opening' = opened
              /\ pc' = "step3" /\ err' = err
         ELSE /\ binary_opening' = binary_opening
              /\ Raise("AssertionError")
    /\ UNCHANGED << alignVars, regionVars, fitVars, refineVars, clusterVars, helperVars >>

\* line 225: find_most_peak_values(dce_rel, binary_opening, timesteps=20)
Step3 ==
    /\ pc = "step3"
    /\ \E pk \in PeakProfiles(binary_opening, FirstWindow),
          wide \in { {}, binary_opening } :
         LET r == find_most_peak_values(pk, wide, FirstWindow)
         IN /\ peak_values' = pk
            /\ dce_wide' = wide
            /\ timesteps' = FirstWindow
            /\ windows' = Append(windows, FirstWindow)
            /\ max_timestep' = r[1]
            /\ retain_voxels' = r[2]
    /\ pc' = "step3_done"
    /\ UNCHANGED << err, binary_opening, regionVars, fitVars, refineVars, clusterVars, helperVars >>

\* lines 226-227: the retry with timesteps=30 when the first call returned None
Step3Retry ==
    /\ pc = "step3_done"
    /\ max_timestep = None
    /\ \E pk \in RetryProfiles(peak_values, RetryWindow) :
         LET r == find_most_peak_values(pk, dce_wide, RetryWindow)
         IN /\ peak_values' = pk
            /\ timesteps' = RetryWindow
            /\ windows' = Append(windows, RetryWindow)
            /\ max_timestep' = r[1]
            /\ retain_voxels' = r[2]
    /\ pc' = "step4"
    /\ UNCHANGED << err, binary_opening, dce_wide, regionVars, fitVars, refineVars, clusterVars, helperVars >>

\* line 226 when the first call succeeded: no retry
Step3Keep ==
    /\ pc = "step3_done"
    /\ max_timestep # None
    /\ pc' = "step4"
    /\ UNCHANGED << err, binary_opening, alignVars, regionVars, fitVars, refineVars, clusterVars, helperVars >>

\* lines 230-246: label the opened mask, regionprops, find_promising_objects
Step4 ==
    /\ pc = "step4"
    /\ \E lab \in Labelings(binary_opening) :
         \E area \in [ 1..NumLabels(lab) -> AreaVals ] :
           LET regs == RegionProps(lab, area)
               found == find_promising_objects(regs, area_threshold)
           IN /\ label_im' = lab
              /\ regions' = regs
              /\ masks' = found.masks
              /\ bbox' = found.bbox
              /\ list_of_index' = found.list_of_index
    /\ pc' = "fit"
    /\ UNCHANGED << err, binary_opening, alignVars, fitVars, refineVars, clusterVars, helperVars >>


\* lines 274-308: average curve and Parker fit of every candidate, the cost
\* column, idxmin, and the mask of the chosen label.  A fit that raises leaves
\* the function; a cost column without a number ends in ValueError (idxmin)
\* or, where idxmin returns nan, in the unbound "half" of line 314.
FitRegions ==
    /\ pc = "fit"
    /\ LET cand == Range(list_of_index)
           rows == 0..(NumLabels(label_im) - 1)
       IN \E o \in [ cand -> CostVals \cup { ValueError } ] :
            /\ \A x \in cand : o[x] \in FitOutcomes(LabelSites(label_im, x + 1))
            /\ LET failed == { x \in cand : o[x] = ValueError }
                   done == IF failed = {} THEN cand ELSE { x \in cand : x < Min(failed) }
                   tried == IF failed = {} THEN cand ELSE { x \in cand : x <= Min(failed) }
                   col == [ r \in rows |-> IF r \in done THEN o[r] ELSE NaN ]
               IN /\ df_cost' = col
                  /\ fits' = fits \cup { << LabelSites(label_im, x + 1), o[x] >> : x \in tried }
                  /\ solution' = IF tried = {} THEN solution ELSE o[Max(tried)]
                  /\ IF failed # {}
                     THEN Raise("ValueError") /\ UNCHANGED << best_fit, mask >>
                     ELSE IF ~HasCost(col)
                     THEN /\ \E e \in { "ValueError", "UnboundLocalError" } :
                               /\ Raise(e)
                               /\ (rows = {} => e = "ValueError")
                          /\ UNCHANGED << best_fit, mask >>
                     ELSE /\ best_fit' = IdxMin(col)
                          /\ mask' = LabelSites(label_im, IdxMin(col) + 1)
                          /\ pc' = "step5" /\ err' = err
    /\ UNCHANGED << binary_opening, alignVars, regionVars, refineVars, clusterVars, helperVars >>

\* lines 309-325: erode once, dilate once, refit; ValueError is caught
Step5 ==
    /\ pc = "step5"
    /\ \E opened \in SUBSET mask :
         \E o \in FitOutcomes(opened) :
           /\ multi_dilated' = opened
           /\ solution' = o
           /\ fits' = fits \cup { << opened, o >> }
           /\ mask' = AcceptedMask(o, MinCost(df_cost), opened, mask)
           /\ cost_after_dilation' = AcceptedCost(o, MinCost(df_cost))
    /\ pc' = "step6"
    /\ UNCHANGED << err, binary_opening, alignVars, regionVars, df_cost, best_fit,
                    m, cost_after_region_growing, clusterVars, helperVars >>

\* lines 328-354: seed, flood fill, refit; nothing catches a ValueError here
Step6 ==
    /\ pc = "step6"
    /\ \E flood \in (SUBSET Sites) \ { {} } :
         \E o \in FitOutcomes(flood) :
           /\ m' = flood
           /\ solution' = o
           /\ fits' = fits \cup { << flood, o >> }
           /\ IF o = ValueError
              THEN /\ Raise("ValueError")
                   /\ UNCHANGED << mask, cost_after_region_growing >>
              ELSE /\ mask' = AcceptedMask(o, cost_after_dilation, flood, mask)
                   /\ cost_after_region_growing' = AcceptedCost(o, cost_after_dilation)
                   /\ pc' = "step7" /\ err' = err
    /\ UNCHANGED << binary_opening, alignVars, regionVars, df_cost, best_fit,
                    multi_dilated, cost_after_dilation, clusterVars, helperVars >>

\* lines 364-402 for the curves tcs and the ids cr: histogram of the ids, one
\* array per cluster, the averages, the assertion, argmin of the
\* full-timeline means, the chosen curve
ClusterStage(tcs, cr) ==
    LET K == Max(Range(cr)) + 1
        h == HistogramRange(cr, K)
        stored == StoreCurves(tcs, cr, K)
        avg == [ x \in 0..(K - 1) |-> AverageCurve(stored.tc[x]) ]
        fl == [ x \in 0..(K - 1) |-> FullLine(avg[x]) ]
    IN [ number_of_clusters |-> K, hist |-> h, idx |-> stored.idx,
         asserted |-> \A x \in 0..(K - 1) : stored.idx[x] = h[x],
         tcc |-> avg, fullline |-> fl,
         best_fit |-> ArgMinLine(fl), Cb |-> avg[ArgMinLine(fl)] ]

\* lines 363-402 with n_clusters handed to kmeans_cluster
ClusterStep(tcs, n_clusters) ==
    /\ timecourses' = tcs
    /\ IF KMeansRefuses(tcs, n_clusters)
       THEN /\ Raise("ValueError")
            /\ UNCHANGED << cluster_results, number_of_clusters, hist, idx, tcc,
                            fullline, best_fit, Cb >>
       ELSE \E cr \in kmeans_cluster(tcs, n_clusters) :
              \E r \in { ClusterStage(tcs, cr) } :
                 /\ cluster_results' = cr
                 /\ number_of_clusters' = r.number_of_clusters
                 /\ hist' = r.hist
                 /\ idx' = r.idx
                 /\ IF ~r.asserted
                    THEN /\ Raise("AssertionError")
                         /\ UNCHANGED << tcc, fullline, best_fit, Cb >>
                    ELSE /\ tcc' = r.tcc
                         /\ fullline' = r.fullline
                         /\ best_fit' = r.best_fit
                         /\ Cb' = r.Cb
                         /\ pc' = "save" /\ err' = err

\* lines 356-402: the curve of every site of the mask, k-means with one
\* cluster, the cluster averages and the chosen curve
Step7 ==
    /\ pc = "step7"
    /\ \E curve \in CurveProfiles(mask) :
         LET order == ScanOrder(mask)
         IN ClusterStep([ i \in 1..Len(order) |-> curve[order[i]] ], 1)
    /\ UNCHANGED << binary_opening, alignVars, regionVars, df_cost, fits, solution, mask,
                    refineVars, helperVars >>

\* lines 403-409: plot, save under result_path, return.  result_path is no
\* name of the file (line 399 is a comment): it is bound only if the caller's
\* environment put it into the module, otherwise line 406 raises NameError.
Save ==
    /\ pc = "save"
    /\ \E bound \in BOOLEAN :
         IF bound THEN pc' = "done" /\ err' = err ELSE Raise("NameError")
    /\ UNCHANGED << binary_opening, alignVars, regionVars, fitVars, refineVars,
                    clusterVars, helperVars >>

Next ==
    \/ Preprocess
    \/ Step3
    \/ Step3Retry
    \/ Step3Keep
    \/ Step4
    \/ FitRegions
    \/ Step5
    \/ Step6
    \/ Step7
    \/ Save

Spec == Init /\ [][Next]_vars


\* ------------------ the pipeline from region extraction to the clusterer
\* The state Spec reaches at step 4 for a volume whose sites are all in the
\* opened mask and all peak at the interior index: the first alignment
\* succeeded, there was no retry.  (The first component is never a candidate,
\* so its sites stand for the sites outside every candidate region.)
InitRefine ==
    /\ pc = "step4"
    /\ binary_opening = Sites
    /\ peak_values = [ s \in binary_opening |-> SamplePeak ]
    /\ dce_wide = {}
    /\ timesteps = FirstWindow
    /\ windows = << FirstWindow >>
    /\ max_timestep = find_most_peak_values(peak_values, dce_wide, FirstWindow)[1]
    /\ retain_voxels = find_most_peak_values(peak_values, dce_wide, FirstWindow)[2]
    /\ Unfitted

NextRefine ==
    \/ Step4
    \/ FitRegions
    \/ Step5
    \/ Step6
    \/ Step7

SpecRefine == InitRefine /\ [][NextRefine]_vars

\* ------------------------------------------- the clustering stage on its own
\* lines 356-402 for any curves and any number of clusters handed to
\* kmeans_cluster
ClusterAny ==
    /\ pc = "clusterer"
    /\ \E n \in 1..NSites, K \in 1..MaxK :
         \E tcs \in [ 1..n -> Curves ] : ClusterStep(tcs, K)
    /\ UNCHANGED << binary_opening, alignVars, regionVars, df_cost, fits, solution, mask,
                    refineVars, helperVars >>

InitCluster == pc = "clusterer" /\ Unset

NextCluster == ClusterAny

SpecCluster == InitCluster /\ [][NextCluster]_vars

\* ------------------------------------------------ the two helpers on their own
CallRelativeConcentrationMap ==
    /\ pc = "helpers"
    /\ \E T \in 1..MaxT, baseline \in -1..(MaxT + 1), k \in 1..2, option \in { "ABS", "REL", "" } :
         \E im \in Volumes(T) :
           /\ helper_in' = [ fn |-> "relative_concentration_map", im |-> im,
                             baseline |-> baseline, k |-> k, option |-> option ]
           /\ helper_out' = relative_concentration_map(im, baseline, k, option)
    /\ pc' = "returned"
    /\ UNCHANGED << err, binary_opening, alignVars, regionVars, fitVars, refineVars, clusterVars >>

CallSelectBrightestVoxels ==
    /\ pc = "helpers"
    /\ \E T \in 1..MaxT, n \in 0..(MaxT + 1), percentile \in { 0, 2, 50, 100 } :
         \E dce \in Volumes(T) :
           /\ helper_in' = [ fn |-> "select_brightest_voxels", dce |-> dce,
                             timesteps |-> n, percentile |-> percentile ]
           /\ helper_out' = select_brightest_voxels(dce, n, percentile)
    /\ pc' = "returned"
    /\ UNCHANGED << err, binary_opening, alignVars, regionVars, fitVars, refineVars, clusterVars >>

InitHelpers == pc = "helpers" /\ Unset

NextHelpers ==
    \/ CallRelativeConcentrationMap
    \/ CallSelectBrightestVoxels

SpecHelpers == InitHelpers /\ [][NextHelpers]_vars


\* ======================================================== the claims
Candidates == Range(list_of_index)
LabelMask == LabelSites(label_im, best_fit + 1)
AfterSelection == { "step5", "step6", "step7", "save", "done" }

\* C1: the recorded best costs (minimum candidate cost, cost after dilation,
\* cost after region growing) never increase, and a refinement step changes
\* the mask only when the refit succeeded with a cost strictly below the best
\* cost carried into that step.
C1_CostsNonIncreasing ==
    [][ /\ (pc = "step5" /\ pc' = "step6") =>
              /\ cost_after_dilation' <= MinCost(df_cost)
              /\ (mask' # mask => (solution' # ValueError /\ solution' < MinCost(df_cost)))
        /\ (pc = "step6" /\ pc' = "step7") =>
              /\ cost_after_region_growing' <= cost_after_dilation
              /\ (mask' # mask => (solution' # ValueError /\ solution' < cost_after_dilation))
      ]_vars

\* both refinements were accepted: three strictly falling best costs
C1_Witness ==
    /\ pc = "step7"
    /\ cost_after_dilation < MinCost(df_cost)
    /\ cost_after_region_growing < cost_after_dilation
    /\ mask = m /\ m # multi_dilated /\ multi_dilated # LabelMask

\* C2: the alignment is tried with window 20, then once more with window 30
\* only after a failure, and after two failures no later stage runs.
C2_DoubleFailureStops ==
    /\ windows \in { << >>, << FirstWindow >>, << FirstWindow, RetryWindow >> }
    /\ (windows = << FirstWindow, RetryWindow >> /\ max_timestep = None)
          => pc \notin { "fit", "step5", "step6", "step7", "save", "done" }

\* C3: once a candidate has been selected, a ValueError of a refinement refit
\* is absorbed: after the dilation refit mask and best cost are the selected
\* ones, and no ValueError leaves the function.
C3_RefitFailureAbsorbed ==
    /\ (pc = "step6" /\ solution = ValueError)
          => (mask = LabelMask /\ cost_after_dilation = MinCost(df_cost))
    /\ cost_after_dilation # NaN => ~(pc = "error" /\ err = "ValueError")

\* C4: the candidates are exactly the labelled components whose area reaches
\* the threshold, each with its own mask and bounding box.
C4_CandidatesAreLargeComponents ==
    pc = "fit" =>
        /\ { x + 1 : x \in Candidates }
             = { l \in 1..NumLabels(label_im) : regions[l].area >= area_threshold }
        /\ \A i \in DOMAIN list_of_index :
             /\ masks[i] = LabelSites(label_im, list_of_index[i] + 1)
             /\ bbox[i] = regions[list_of_index[i] + 1].bbox

\* C5: sites peaking at index 0 or n-1 are left out of the histogram, the
\* dominant timestep is a most frequent peak index of the sites kept, and
\* when every site peaks at 0 or at n-1 the call reports failure.
C5_BoundaryPeaksFail ==
    timesteps # 0 =>
        LET n == timesteps
            kept == { s \in DOMAIN peak_values : peak_values[s] \notin { 0, n - 1 } }
            Count(t) == Cardinality({ s \in kept : peak_values[s] = t })
        IN /\ FirstPart(peak_values, n) = kept
           /\ max_timestep # None => \A t \in 0..(n - 1) : Count(t) <= Count(max_timestep)
           /\ kept = {} => max_timestep = None

\* C6: a baseline length outside 0 < b < T makes relative_concentration_map
\* fail, and a window outside 0 < n < T or a percentile outside 0 < p < 100
\* makes select_brightest_voxels fail; neither returns a value then.
C6_BadParameterFails ==
    /\ (/\ helper_in.fn = "relative_concentration_map"
        /\ (helper_in.baseline <= 0 \/ helper_in.baseline >= Len(helper_in.im)))
          => helper_out.raised # "no"
    /\ (/\ helper_in.fn = "select_brightest_voxels"
        /\ ~(/\ 0 < helper_in.timesteps /\ helper_in.timesteps < Len(helper_in.dce)
             /\ 0 < helper_in.percentile /\ helper_in.percentile < 100))
          => helper_out.raised # "no"

\* C7: the labelled mask is the aligner's output: every site of a candidate
\* region is a site of the opened mask whose peak index is the dominant
\* timestep, and the returned value map is non-zero only at such sites.
C7_LabelsAlignedMask ==
    /\ pc = "fit" =>
         \A s \in Sites : (label_im[s] - 1) \in Candidates =>
             /\ s \in binary_opening
             /\ max_timestep # None
             /\ peak_values[s] = max_timestep
    /\ max_timestep # None =>
         \A s \in Sites : retain_voxels[s] # 0 =>
             (s \in binary_opening /\ peak_values[s] = max_timestep)

\* C8: after the per-region fit the chosen row is a candidate of minimum cost,
\* the one of smallest label among those of minimum cost, and the mask is the
\* set of sites carrying its label.
C8_BestIsFirstMinimum ==
    pc = "step5" =>
        /\ best_fit \in Candidates
        /\ df_cost[best_fit] # NaN
        /\ \A x \in Candidates : df_cost[best_fit] <= df_cost[x]
        /\ \A x \in Candidates : df_cost[x] = df_cost[best_fit] => best_fit <= x
        /\ \A r \in DOMAIN df_cost : r \notin Candidates => df_cost[r] = NaN
        /\ mask = { s \in Sites : label_im[s] = best_fit + 1 }

\* two candidates tie at the minimum cost and a third component was filtered out
C8_Witness ==
    /\ pc = "step5"
    /\ \E x, y \in Candidates : x < y /\ df_cost[x] = df_cost[y] /\ df_cost[x] = MinCost(df_cost)
    /\ \E r \in DOMAIN df_cost : r \notin Candidates

BestCost ==
    IF pc = "step5" THEN MinCost(df_cost)
    ELSE IF pc = "step6" THEN cost_after_dilation
    ELSE cost_after_region_growing

C10_MaskAndCostCoherent ==
    pc \in AfterSelection =>
        /\ << mask, BestCost >> \in fits
        /\ pc \in { "save", "done" } => Len(timecourses) = Cardinality(mask)

\* the dilation was accepted, the flood fill refitted and rejected
C10_Witness ==
    /\ pc = "step7"
    /\ cost_after_dilation < MinCost(df_cost)
    /\ mask = multi_dilated /\ mask # LabelMask
    /\ m # mask /\ solution # ValueError
    /\ cost_after_region_growing = cost_after_dilation

====
